---- MODULE Spec2Model ----
(***************************************************************************)
(* State-machine model of NetworkManager's IPv6 neighbor discovery core,   *)
(* src/src/ndisc/nm-ndisc.c: the five learned-item collections, the        *)
(* expiry sweep (check_timestamps), the router-solicitation pacer          *)
(* (solicit / send_rs_timeout), the first-RA timeout and the public entry  *)
(* points.  Time is the monotonic clock in seconds; GLib timeout sources   *)
(* are modelled explicitly and fire when the clock reaches their due time. *)
(***************************************************************************)
EXTENDS Integers, Sequences, FiniteSets, TLC

VARIABLES
    gateways,       \* rdata->gateways    : sequence of NMNDiscGateway
    addresses,      \* rdata->addresses   : sequence of NMNDiscAddress
    routes,         \* rdata->routes      : sequence of NMNDiscRoute
    dns_servers,    \* rdata->dns_servers : sequence of NMNDiscDNSServer
    dns_domains,    \* rdata->dns_domains : sequence of NMNDiscDNSDomain
    solicitations_left,
    send_rs_id,     \* id of the pending send-RS source, 0 = none
    last_rs,
    ra_timeout_id,  \* id of the pending first-RA source, 0 = none
    timeout_id,     \* id of the pending lifetime-check source, 0 = none
    last_send_rs_error,
    iid,
    config,         \* the construct-only properties (immutable)
    sources,        \* the main loop's pending timeout sources
    clock,          \* nm_utils_get_monotonic_timestamp_s ()
    in_ra,          \* the transport is inside its receive callback
    last,           \* the handler that ran last, with its inputs and outputs
    events,         \* the signals the last handler emitted, in order
    hist            \* history: sends of the current burst, last start ()

vars == <<gateways, addresses, routes, dns_servers, dns_domains,
          solicitations_left, send_rs_id, last_rs, ra_timeout_id, timeout_id,
          last_send_rs_error, iid, config, sources, clock, in_ra, last,
          events, hist>>

rdata_vars == <<gateways, addresses, routes, dns_servers, dns_domains>>

(***************************************************************************)
(* Program constants.  A guint32 is represented by its residue modulo 2^32 *)
(* in TLC's integer range, so 0xFFFFFFFF is -1 and a guint32 sum of small  *)
(* values with it wraps exactly as in C.                                   *)
(***************************************************************************)
G_MAXUINT32 == -1
G_MAXINT32 == 2147483647
G_MININT32 == (-2147483647) - 1

EUI64 == "eui64"
STABLE_PRIVACY == "stable-privacy"

\* NMNDiscPreference, ordered by its integer encoding.
PREF_LOW == 1
PREF_MEDIUM == 2
PREF_HIGH == 3

\* NMNDiscConfigMap bits.
DHCP_LEVEL == "d"
GATEWAYS == "G"
ADDRESSES == "A"
ROUTES == "R"
DNS_SERVERS == "S"
DNS_DOMAINS == "D"

NULL == "NULL"

(***************************************************************************)
(* Bounds of the model.                                                    *)
(***************************************************************************)
MaxTime == 2
MaxAdds == 2
NumPrefixes == 2
NumRouters == 2
MaxStarts == 2
MaxFails == 2
PacerMaxTime == 3
StartMaxTime == 121
TimersMaxTime == 30
ReslotMaxAdds == 3
BurstMaxTime == 100

Max(a, b) == IF a > b THEN a ELSE b
Min(a, b) == IF a < b THEN a ELSE b

(***************************************************************************)
(* GArray primitives (indices are C indices, from 0).                      *)
(***************************************************************************)
g_array_remove_index(arr, i) ==
    SubSeq(arr, 1, i) \o SubSeq(arr, i + 2, Len(arr))

g_array_insert_val(arr, i, val) ==
    SubSeq(arr, 1, i) \o <<val>> \o SubSeq(arr, i + 1, Len(arr))

(***************************************************************************)
(* Learned-item store: the five add helpers.  Each operator takes the      *)
(* collection and the new item and yields the collection afterwards and    *)
(* the gboolean the C function returns.                                    *)
(***************************************************************************)

\* The scan loop of nm_ndisc_add_gateway from index i on, with insert_idx as
\* recorded so far, and the insertion after the loop.
RECURSIVE add_gateway_scan(_, _, _, _)
add_gateway_scan(arr, i, insert_idx, new) ==
    IF i >= Len(arr)
    THEN IF new.lifetime # 0
         THEN [list |-> g_array_insert_val(arr, Max(insert_idx, 0), new), ret |-> TRUE]
         ELSE [list |-> arr, ret |-> FALSE]
    ELSE LET item == arr[i + 1] IN
         IF item.address = new.address
         THEN IF new.lifetime = 0
              THEN [list |-> g_array_remove_index(arr, i), ret |-> TRUE]
              ELSE IF item.preference # new.preference
                   THEN add_gateway_scan(g_array_remove_index(arr, i), i, insert_idx, new)
                   ELSE [list |-> [arr EXCEPT ![i + 1] = new], ret |-> FALSE]
         ELSE add_gateway_scan(arr, i + 1,
                               IF item.preference < new.preference /\ insert_idx < 0
                               THEN i ELSE insert_idx,
                               new)

nm_ndisc_add_gateway(arr, new) == add_gateway_scan(arr, 0, -1, new)

\* The scan loop of nm_ndisc_add_route, keyed on (network, plen).
RECURSIVE add_route_scan(_, _, _, _)
add_route_scan(arr, i, insert_idx, new) ==
    IF i >= Len(arr)
    THEN IF new.lifetime # 0
         THEN [list |-> g_array_insert_val(arr, Min(Max(insert_idx, 0), G_MAXINT32), new),
               ret |-> TRUE]
         ELSE [list |-> arr, ret |-> FALSE]
    ELSE LET item == arr[i + 1] IN
         IF item.network = new.network /\ item.plen = new.plen
         THEN IF new.lifetime = 0
              THEN [list |-> g_array_remove_index(arr, i), ret |-> TRUE]
              ELSE IF item.preference # new.preference
                   THEN add_route_scan(g_array_remove_index(arr, i), i, insert_idx, new)
                   ELSE [list |-> [arr EXCEPT ![i + 1] = new], ret |-> FALSE]
         ELSE add_route_scan(arr, i + 1,
                             IF item.preference < new.preference /\ insert_idx < 0
                             THEN i ELSE insert_idx,
                             new)

nm_ndisc_add_route(arr, new) ==
    IF new.plen = 0 \/ new.plen > 128
    THEN [list |-> arr, ret |-> FALSE]
    ELSE add_route_scan(arr, 0, -1, new)

\* nm_utils_ipv6_addr_set_stable_privacy: the host bits are a function of the
\* immutable (stable_type, ifname, network_id) and of the DAD counter; the
\* derivation fails once the counter has run out.
IDGEN_RETRIES == 3
StablePrivacyHost(dad_counter) == 100 + dad_counter
StablePrivacyOk(dad_counter) == dad_counter < IDGEN_RETRIES

\* Mutant of complete_address: the stable-privacy DAD counter is not advanced.
complete_address_same_counter(addr, addr_gen_mode, iid_) ==
    IF addr_gen_mode = STABLE_PRIVACY
    THEN IF StablePrivacyOk(addr.dad_counter)
         THEN [ok |-> TRUE,
               addr |-> [addr EXCEPT !.host = StablePrivacyHost(0)]]
         ELSE [ok |-> FALSE, addr |-> addr]
    ELSE IF iid_ = 0
         THEN [ok |-> FALSE, addr |-> addr]
         ELSE IF addr.host = 0
              THEN [ok |-> TRUE, addr |-> [addr EXCEPT !.host = iid_]]
              ELSE [ok |-> FALSE, addr |-> addr]

\* complete_address: ok, and the address as the call leaves it.
complete_address(addr, addr_gen_mode, iid_) ==
    IF addr_gen_mode = STABLE_PRIVACY
    THEN IF StablePrivacyOk(addr.dad_counter)
         THEN [ok |-> TRUE,
               addr |-> [addr EXCEPT !.host = StablePrivacyHost(addr.dad_counter),
                                     !.dad_counter = @ + 1]]
         ELSE [ok |-> FALSE, addr |-> [addr EXCEPT !.dad_counter = @ + 1]]
    ELSE IF iid_ = 0
         THEN [ok |-> FALSE, addr |-> addr]
         ELSE IF addr.host = 0
              THEN [ok |-> TRUE, addr |-> [addr EXCEPT !.host = iid_]]
              ELSE [ok |-> FALSE, addr |-> addr]

SameAddress(a, b) == a.prefix = b.prefix /\ a.host = b.host

\* Mutant of add_address: the max_addresses test is missing.
add_address_no_cap(arr, new, max_addresses) ==
    LET matches == {k \in 1..Len(arr) : SameAddress(arr[k], new)} IN
    IF matches # {}
    THEN LET k == CHOOSE m \in matches : \A n \in matches : m <= n
             item == arr[k]
         IN  IF new.lifetime = 0
             THEN [list |-> g_array_remove_index(arr, k - 1), ret |-> TRUE]
             ELSE [list |-> [arr EXCEPT ![k] = new],
                   ret |-> \/ item.timestamp + item.lifetime # new.timestamp + new.lifetime
                           \/ item.timestamp + item.preferred # new.timestamp + new.preferred]
    ELSE IF new.lifetime # 0
         THEN [list |-> g_array_insert_val(arr, Len(arr), new), ret |-> TRUE]
         ELSE [list |-> arr, ret |-> FALSE]

\* Mutant of add_address: a stored address is matched by its prefix alone.
add_address_by_prefix(arr, new, max_addresses) ==
    LET matches == {k \in 1..Len(arr) : arr[k].prefix = new.prefix} IN
    IF matches # {}
    THEN LET k == CHOOSE m \in matches : \A n \in matches : m <= n
             item == arr[k]
         IN  IF new.lifetime = 0
             THEN [list |-> g_array_remove_index(arr, k - 1), ret |-> TRUE]
             ELSE [list |-> [arr EXCEPT ![k] = new],
                   ret |-> \/ item.timestamp + item.lifetime # new.timestamp + new.lifetime
                           \/ item.timestamp + item.preferred # new.timestamp + new.preferred]
    ELSE IF max_addresses # 0 /\ Len(arr) >= max_addresses
         THEN [list |-> arr, ret |-> FALSE]
         ELSE IF new.lifetime # 0
              THEN [list |-> g_array_insert_val(arr, Len(arr), new), ret |-> TRUE]
              ELSE [list |-> arr, ret |-> FALSE]

\* The part of nm_ndisc_complete_and_add_address after the completion.
add_address(arr, new, max_addresses) ==
    LET matches == {k \in 1..Len(arr) : SameAddress(arr[k], new)} IN
    IF matches # {}
    THEN LET k == CHOOSE m \in matches : \A n \in matches : m <= n
             item == arr[k]
         IN  IF new.lifetime = 0
             THEN [list |-> g_array_remove_index(arr, k - 1), ret |-> TRUE]
             ELSE [list |-> [arr EXCEPT ![k] = new],
                   ret |-> \/ item.timestamp + item.lifetime # new.timestamp + new.lifetime
                           \/ item.timestamp + item.preferred # new.timestamp + new.preferred]
    ELSE IF max_addresses # 0 /\ Len(arr) >= max_addresses
         THEN [list |-> arr, ret |-> FALSE]
         ELSE IF new.lifetime # 0
              THEN [list |-> g_array_insert_val(arr, Len(arr), new), ret |-> TRUE]
              ELSE [list |-> arr, ret |-> FALSE]

nm_ndisc_complete_and_add_address(arr, new, addr_gen_mode, iid_, max_addresses) ==
    LET c == complete_address(new, addr_gen_mode, iid_) IN
    IF ~c.ok
    THEN [list |-> arr, ret |-> FALSE]
    ELSE add_address(arr, c.addr, max_addresses)

\* Mutant of nm_ndisc_add_dns_server: the lifetime == 0 test is missing.
nm_ndisc_add_dns_server_no_withdraw(arr, new) ==
    LET matches == {k \in 1..Len(arr) : arr[k].address = new.address} IN
    IF matches # {}
    THEN LET k == CHOOSE m \in matches : \A n \in matches : m <= n
             item == arr[k]
         IN  IF item.timestamp # new.timestamp \/ item.lifetime # new.lifetime
             THEN [list |-> [arr EXCEPT ![k] = new], ret |-> TRUE]
             ELSE [list |-> arr, ret |-> FALSE]
    ELSE IF new.lifetime # 0
         THEN [list |-> g_array_insert_val(arr, Len(arr), new), ret |-> TRUE]
         ELSE [list |-> arr, ret |-> FALSE]

nm_ndisc_add_dns_server(arr, new) ==
    LET matches == {k \in 1..Len(arr) : arr[k].address = new.address} IN
    IF matches # {}
    THEN LET k == CHOOSE m \in matches : \A n \in matches : m <= n
             item == arr[k]
         IN  IF new.lifetime = 0
             THEN [list |-> g_array_remove_index(arr, k - 1), ret |-> TRUE]
             ELSE IF item.timestamp # new.timestamp \/ item.lifetime # new.lifetime
                  THEN [list |-> [arr EXCEPT ![k] = new], ret |-> TRUE]
                  ELSE [list |-> arr, ret |-> FALSE]
    ELSE IF new.lifetime # 0
         THEN [list |-> g_array_insert_val(arr, Len(arr), new), ret |-> TRUE]
         ELSE [list |-> arr, ret |-> FALSE]

nm_ndisc_add_dns_domain(arr, new) ==
    LET matches == {k \in 1..Len(arr) : arr[k].domain = new.domain} IN
    IF matches # {}
    THEN LET k == CHOOSE m \in matches : \A n \in matches : m <= n
             item == arr[k]
         IN  IF new.lifetime = 0
             THEN [list |-> g_array_remove_index(arr, k - 1), ret |-> TRUE]
             ELSE IF item.timestamp # new.timestamp \/ item.lifetime # new.lifetime
                  THEN [list |-> [arr EXCEPT ![k].timestamp = new.timestamp,
                                             ![k].lifetime = new.lifetime],
                        ret |-> TRUE]
                  ELSE [list |-> arr, ret |-> FALSE]
    ELSE IF new.lifetime # 0
         THEN [list |-> g_array_insert_val(arr, Len(arr), new), ret |-> TRUE]
         ELSE [list |-> arr, ret |-> FALSE]

\* Mutant of dad_failed_scan: an entry that cannot be completed again is kept.
RECURSIVE dad_failed_scan_keep(_, _, _, _, _, _)
dad_failed_scan_keep(arr, i, address, changed, addr_gen_mode, iid_) ==
    IF i >= Len(arr)
    THEN [list |-> arr, changed |-> changed]
    ELSE LET item == arr[i + 1] IN
         IF ~SameAddress(item, address)
         THEN dad_failed_scan_keep(arr, i + 1, address, changed, addr_gen_mode, iid_)
         ELSE LET c == complete_address(item, addr_gen_mode, iid_) IN
              dad_failed_scan_keep([arr EXCEPT ![i + 1] = c.addr], i + 1, address, TRUE,
                                   addr_gen_mode, iid_)

\* The loop of nm_ndisc_dad_failed from index i on.
RECURSIVE dad_failed_scan(_, _, _, _, _, _)
dad_failed_scan(arr, i, address, changed, addr_gen_mode, iid_) ==
    IF i >= Len(arr)
    THEN [list |-> arr, changed |-> changed]
    ELSE LET item == arr[i + 1] IN
         IF ~SameAddress(item, address)
         THEN dad_failed_scan(arr, i + 1, address, changed, addr_gen_mode, iid_)
         ELSE LET c == complete_address(item, addr_gen_mode, iid_) IN
              IF ~c.ok
              THEN dad_failed_scan(g_array_remove_index(arr, i), i, address, TRUE,
                                   addr_gen_mode, iid_)
              ELSE dad_failed_scan([arr EXCEPT ![i + 1] = c.addr], i + 1, address, TRUE,
                                   addr_gen_mode, iid_)


(***************************************************************************)
(* GLib timeout sources.  A source is [id, role, due]; the three id slots  *)
(* of NMNDiscPrivate hold the id of the source each refers to, or 0.       *)
(***************************************************************************)
SEND_RS == "send_rs_timeout"
RA_TIMEOUT == "ndisc_ra_timeout_cb"
TIMEOUT == "timeout_cb"

NewSourceId(srcs) ==
    CHOOSE n \in 1..(Cardinality(srcs) + 1) :
        /\ \A s \in srcs : s.id # n
        /\ \A m \in 1..(n - 1) : \E s \in srcs : s.id = m

\* g_timeout_add_seconds (delay, callback, ndisc) at time now.
g_timeout_add_seconds(srcs, delay, callback, now) ==
    LET id == NewSourceId(srcs) IN
    [sources |-> srcs \cup {[id |-> id, role |-> callback, due |-> now + delay]},
     id |-> id]

\* nm_clear_g_source (&id): the sources left.
nm_clear_g_source(srcs, id) == {s \in srcs : s.id # id}

(***************************************************************************)
(* The private state as one record, so that every handler is a function    *)
(* from the state before to the state after and its outputs.               *)
(***************************************************************************)
Priv ==
    [gateways |-> gateways, addresses |-> addresses, routes |-> routes,
     dns_servers |-> dns_servers, dns_domains |-> dns_domains,
     solicitations_left |-> solicitations_left, send_rs_id |-> send_rs_id,
     last_rs |-> last_rs, ra_timeout_id |-> ra_timeout_id,
     timeout_id |-> timeout_id, last_send_rs_error |-> last_send_rs_error,
     iid |-> iid, sources |-> sources]

\* _data_complete: the public view of the five collections.
_data_complete(p) ==
    [gateways |-> p.gateways, gateways_n |-> Len(p.gateways),
     addresses |-> p.addresses, addresses_n |-> Len(p.addresses),
     routes |-> p.routes, routes_n |-> Len(p.routes),
     dns_servers |-> p.dns_servers, dns_servers_n |-> Len(p.dns_servers),
     dns_domains |-> p.dns_domains, dns_domains_n |-> Len(p.dns_domains)]

\* _emit_config_change: the signal as the consumers see it.
_emit_config_change(p, changed) ==
    [signal |-> "config_changed", changed |-> changed, data |-> _data_complete(p)]

(***************************************************************************)
(* Solicitation pacer.                                                     *)
(***************************************************************************)
\* Mutant of solicit_next: the send is scheduled at once.
solicit_next_at_once(last_rs_, interval, now) == 0

\* CLAMP (last_rs + router_solicitation_interval - now, 0, G_MAXINT32),
\* computed without leaving TLC's integer range.
solicit_next(last_rs_, interval, now) ==
    IF last_rs_ + interval <= now
    THEN 0
    ELSE Min((last_rs_ + interval) - now, G_MAXINT32)

\* Mutant of solicit: the pending send timer is not looked at.
solicit_unguarded(p, cfg, now) ==
    LET next == solicit_next(p.last_rs, cfg.router_solicitation_interval, now)
        t == g_timeout_add_seconds(p.sources, next, SEND_RS, now)
    IN  [p EXCEPT !.solicitations_left = cfg.router_solicitations,
                  !.sources = t.sources,
                  !.send_rs_id = t.id]

solicit(p, cfg, now) ==
    IF p.send_rs_id # 0
    THEN p
    ELSE LET next == solicit_next(p.last_rs, cfg.router_solicitation_interval, now)
             t == g_timeout_add_seconds(p.sources, next, SEND_RS, now)
         IN  [p EXCEPT !.solicitations_left = cfg.router_solicitations,
                       !.sources = t.sources,
                       !.send_rs_id = t.id]

\* n calls of solicit () in a row (one per DNS item past its midpoint).
RECURSIVE solicit_times(_, _, _, _)
solicit_times(p, cfg, now, n) ==
    IF n = 0 THEN p ELSE solicit_times(solicit(p, cfg, now), cfg, now, n - 1)

\* Mutant of send_rs_timeout: a failed send is counted like a successful one.
send_rs_timeout_count_failures(p, cfg, now, push_ok, outcome) ==
    LET p0 == [p EXCEPT !.send_rs_id = 0] IN
    IF ~push_ok
    THEN [priv |-> p0, send |-> "netns", log |-> "none"]
    ELSE LET different_message == p0.last_send_rs_error # outcome
             p1 == IF outcome = "ok"
                   THEN [p0 EXCEPT !.solicitations_left = @ - 1,
                                   !.last_send_rs_error = NULL]
                   ELSE IF different_message
                        THEN [p0 EXCEPT !.solicitations_left = @ - 1,
                                        !.last_send_rs_error = outcome]
                        ELSE [p0 EXCEPT !.solicitations_left = @ - 1]
             p2 == [p1 EXCEPT !.last_rs = now]
             t == g_timeout_add_seconds(p2.sources, cfg.router_solicitation_interval,
                                        SEND_RS, now)
             p3 == IF p2.solicitations_left > 0
                   THEN [p2 EXCEPT !.sources = t.sources, !.send_rs_id = t.id]
                   ELSE p2
         IN  [priv |-> p3,
              send |-> IF outcome = "ok" THEN "ok" ELSE "fail",
              log |-> IF outcome = "ok" THEN "debug"
                      ELSE IF different_message THEN "warn" ELSE "debug"]

\* Mutant of send_rs_timeout: last_rs is recorded only for a successful send.
send_rs_timeout_stale_last_rs(p, cfg, now, push_ok, outcome) ==
    LET p0 == [p EXCEPT !.send_rs_id = 0] IN
    IF ~push_ok
    THEN [priv |-> p0, send |-> "netns", log |-> "none"]
    ELSE LET different_message == p0.last_send_rs_error # outcome
             p1 == IF outcome = "ok"
                   THEN [p0 EXCEPT !.solicitations_left = @ - 1,
                                   !.last_send_rs_error = NULL]
                   ELSE IF different_message
                        THEN [p0 EXCEPT !.last_send_rs_error = outcome]
                        ELSE p0
             p2 == IF outcome = "ok" THEN [p1 EXCEPT !.last_rs = now] ELSE p1
             t == g_timeout_add_seconds(p2.sources, cfg.router_solicitation_interval,
                                        SEND_RS, now)
             p3 == IF p2.solicitations_left > 0
                   THEN [p2 EXCEPT !.sources = t.sources, !.send_rs_id = t.id]
                   ELSE p2
         IN  [priv |-> p3,
              send |-> IF outcome = "ok" THEN "ok" ELSE "fail",
              log |-> IF outcome = "ok" THEN "debug"
                      ELSE IF different_message THEN "warn" ELSE "debug"]

\* Mutant of send_rs_timeout: the timer is re-armed once more at solicitations_left = 0.
send_rs_timeout_extra_send(p, cfg, now, push_ok, outcome) ==
    LET p0 == [p EXCEPT !.send_rs_id = 0] IN
    IF ~push_ok
    THEN [priv |-> p0, send |-> "netns", log |-> "none"]
    ELSE LET different_message == p0.last_send_rs_error # outcome
             p1 == IF outcome = "ok"
                   THEN [p0 EXCEPT !.solicitations_left = @ - 1,
                                   !.last_send_rs_error = NULL]
                   ELSE IF different_message
                        THEN [p0 EXCEPT !.last_send_rs_error = outcome]
                        ELSE p0
             p2 == [p1 EXCEPT !.last_rs = now]
             t == g_timeout_add_seconds(p2.sources, cfg.router_solicitation_interval,
                                        SEND_RS, now)
             p3 == IF p2.solicitations_left >= 0
                   THEN [p2 EXCEPT !.sources = t.sources, !.send_rs_id = t.id]
                   ELSE p2
         IN  [priv |-> p3,
              send |-> IF outcome = "ok" THEN "ok" ELSE "fail",
              log |-> IF outcome = "ok" THEN "debug"
                      ELSE IF different_message THEN "warn" ELSE "debug"]

\* Mutant of send_rs_timeout: a successful send does not use up a solicitation.
send_rs_timeout_no_decrement(p, cfg, now, push_ok, outcome) ==
    LET p0 == [p EXCEPT !.send_rs_id = 0] IN
    IF ~push_ok
    THEN [priv |-> p0, send |-> "netns", log |-> "none"]
    ELSE LET different_message == p0.last_send_rs_error # outcome
             p1 == IF outcome = "ok"
                   THEN [p0 EXCEPT !.last_send_rs_error = NULL]
                   ELSE IF different_message
                        THEN [p0 EXCEPT !.last_send_rs_error = outcome]
                        ELSE p0
             p2 == [p1 EXCEPT !.last_rs = now]
             t == g_timeout_add_seconds(p2.sources, cfg.router_solicitation_interval,
                                        SEND_RS, now)
             p3 == IF p2.solicitations_left > 0
                   THEN [p2 EXCEPT !.sources = t.sources, !.send_rs_id = t.id]
                   ELSE p2
         IN  [priv |-> p3,
              send |-> IF outcome = "ok" THEN "ok" ELSE "fail",
              log |-> IF outcome = "ok" THEN "debug"
                      ELSE IF different_message THEN "warn" ELSE "debug"]

\* send_rs_timeout; push_ok is nm_ndisc_netns_push's result, outcome is "ok"
\* or the error message of klass->send_rs.
send_rs_timeout(p, cfg, now, push_ok, outcome) ==
    LET p0 == [p EXCEPT !.send_rs_id = 0] IN
    IF ~push_ok
    THEN [priv |-> p0, send |-> "netns", log |-> "none"]
    ELSE LET different_message == p0.last_send_rs_error # outcome
             p1 == IF outcome = "ok"
                   THEN [p0 EXCEPT !.solicitations_left = @ - 1,
                                   !.last_send_rs_error = NULL]
                   ELSE IF different_message
                        THEN [p0 EXCEPT !.last_send_rs_error = outcome]
                        ELSE p0
             p2 == [p1 EXCEPT !.last_rs = now]
             t == g_timeout_add_seconds(p2.sources, cfg.router_solicitation_interval,
                                        SEND_RS, now)
             p3 == IF p2.solicitations_left > 0
                   THEN [p2 EXCEPT !.sources = t.sources, !.send_rs_id = t.id]
                   ELSE p2
         IN  [priv |-> p3,
              send |-> IF outcome = "ok" THEN "ok" ELSE "fail",
              log |-> IF outcome = "ok" THEN "debug"
                      ELSE IF different_message THEN "warn" ELSE "debug"]

(***************************************************************************)
(* Expiry sweep.                                                           *)
(***************************************************************************)
\* The loop shared by clean_gateways, clean_addresses and clean_routes.
RECURSIVE clean_scan(_, _, _, _, _)
clean_scan(arr, i, now, removed, nextevent) ==
    IF i >= Len(arr)
    THEN [list |-> arr, removed |-> removed, nextevent |-> nextevent]
    ELSE LET item == arr[i + 1] IN
         IF item.lifetime = G_MAXUINT32
         THEN clean_scan(arr, i + 1, now, removed, nextevent)
         ELSE LET expiry == item.timestamp + item.lifetime IN
              IF now >= expiry
              THEN clean_scan(g_array_remove_index(arr, i), i, now, TRUE, nextevent)
              ELSE clean_scan(arr, i + 1, now, removed,
                              IF nextevent > expiry THEN expiry ELSE nextevent)

\* Mutant of clean_gateways: "now > expiry" for "now >= expiry".
RECURSIVE clean_scan_late(_, _, _, _, _)
clean_scan_late(arr, i, now, removed, nextevent) ==
    IF i >= Len(arr)
    THEN [list |-> arr, removed |-> removed, nextevent |-> nextevent]
    ELSE LET item == arr[i + 1] IN
         IF item.lifetime = G_MAXUINT32
         THEN clean_scan_late(arr, i + 1, now, removed, nextevent)
         ELSE LET expiry == item.timestamp + item.lifetime IN
              IF now > expiry
              THEN clean_scan_late(g_array_remove_index(arr, i), i, now, TRUE, nextevent)
              ELSE clean_scan_late(arr, i + 1, now, removed,
                                   IF nextevent > expiry THEN expiry ELSE nextevent)

clean_gateways_late(arr, now, nextevent) == clean_scan_late(arr, 0, now, FALSE, nextevent)

clean_gateways(arr, now, nextevent) == clean_scan(arr, 0, now, FALSE, nextevent)
clean_addresses(arr, now, nextevent) == clean_scan(arr, 0, now, FALSE, nextevent)
clean_routes(arr, now, nextevent) == clean_scan(arr, 0, now, FALSE, nextevent)

\* The loop shared by clean_dns_servers and clean_dns_domains; solicits counts
\* the calls of solicit ().
RECURSIVE clean_dns_scan(_, _, _, _, _, _)
clean_dns_scan(arr, i, now, removed, nextevent, solicits) ==
    IF i >= Len(arr)
    THEN [list |-> arr, removed |-> removed, nextevent |-> nextevent,
          solicits |-> solicits]
    ELSE LET item == arr[i + 1] IN
         IF item.lifetime = G_MAXUINT32
         THEN clean_dns_scan(arr, i + 1, now, removed, nextevent, solicits)
         ELSE LET expiry == item.timestamp + item.lifetime
                  refresh == item.timestamp + (item.lifetime \div 2)
              IN  IF now >= expiry
                  THEN clean_dns_scan(g_array_remove_index(arr, i), i, now, TRUE,
                                      nextevent, solicits)
                  ELSE IF now >= refresh
                       THEN clean_dns_scan(arr, i + 1, now, removed, nextevent,
                                           solicits + 1)
                       ELSE clean_dns_scan(arr, i + 1, now, removed,
                                           IF nextevent > refresh THEN refresh
                                           ELSE nextevent,
                                           solicits)

\* Mutant of clean_dns_servers: no refresh, the expiry is folded as for a gateway.
clean_dns_servers_no_refresh(arr, now, nextevent) ==
    clean_scan(arr, 0, now, FALSE, nextevent) @@ [solicits |-> 0]

clean_dns_servers(arr, now, nextevent) == clean_dns_scan(arr, 0, now, FALSE, nextevent, 0)
clean_dns_domains(arr, now, nextevent) == clean_dns_scan(arr, 0, now, FALSE, nextevent, 0)

\* Mutant of check_timestamps: the pending sweep timer is not cleared first.
check_timestamps_no_clear(p, cfg, now, clk, changed) ==
    LET never == G_MAXINT32
        p0 == p
        g == clean_gateways(p0.gateways, now, never)
        a == clean_addresses(p0.addresses, now, g.nextevent)
        r == clean_routes(p0.routes, now, a.nextevent)
        s == clean_dns_servers(p0.dns_servers, now, r.nextevent)
        d == clean_dns_domains(p0.dns_domains, now, s.nextevent)
        nextevent == d.nextevent
        mask == changed
                \cup (IF g.removed THEN {GATEWAYS} ELSE {})
                \cup (IF a.removed THEN {ADDRESSES} ELSE {})
                \cup (IF r.removed THEN {ROUTES} ELSE {})
                \cup (IF s.removed THEN {DNS_SERVERS} ELSE {})
                \cup (IF d.removed THEN {DNS_DOMAINS} ELSE {})
        p1 == [p0 EXCEPT !.gateways = g.list, !.addresses = a.list,
                         !.routes = r.list, !.dns_servers = s.list,
                         !.dns_domains = d.list]
        p2 == solicit_times(p1, cfg, clk, s.solicits + d.solicits)
        t == g_timeout_add_seconds(p2.sources, nextevent - now, TIMEOUT, clk)
        p3 == IF nextevent # never /\ nextevent > now
              THEN [p2 EXCEPT !.sources = t.sources, !.timeout_id = t.id]
              ELSE p2
    IN  [priv |-> p3,
         events |-> IF mask # {} THEN <<_emit_config_change(p2, mask)>> ELSE <<>>,
         solicits |-> s.solicits + d.solicits,
         armed |-> s.solicits + d.solicits > 0 /\ p0.send_rs_id = 0]

\* Mutant of check_timestamps: the snapshot is taken before the sweep.
check_timestamps_early_emit(p, cfg, now, clk, changed) ==
    LET never == G_MAXINT32
        p0 == [p EXCEPT !.sources = nm_clear_g_source(@, p.timeout_id),
                        !.timeout_id = 0]
        g == clean_gateways(p0.gateways, now, never)
        a == clean_addresses(p0.addresses, now, g.nextevent)
        r == clean_routes(p0.routes, now, a.nextevent)
        s == clean_dns_servers(p0.dns_servers, now, r.nextevent)
        d == clean_dns_domains(p0.dns_domains, now, s.nextevent)
        nextevent == d.nextevent
        mask == changed
                \cup (IF g.removed THEN {GATEWAYS} ELSE {})
                \cup (IF a.removed THEN {ADDRESSES} ELSE {})
                \cup (IF r.removed THEN {ROUTES} ELSE {})
                \cup (IF s.removed THEN {DNS_SERVERS} ELSE {})
                \cup (IF d.removed THEN {DNS_DOMAINS} ELSE {})
        p1 == [p0 EXCEPT !.gateways = g.list, !.addresses = a.list,
                         !.routes = r.list, !.dns_servers = s.list,
                         !.dns_domains = d.list]
        p2 == solicit_times(p1, cfg, clk, s.solicits + d.solicits)
        t == g_timeout_add_seconds(p2.sources, nextevent - now, TIMEOUT, clk)
        p3 == IF nextevent # never /\ nextevent > now
              THEN [p2 EXCEPT !.sources = t.sources, !.timeout_id = t.id]
              ELSE p2
    IN  [priv |-> p3,
         events |-> IF mask # {} THEN <<_emit_config_change(p0, mask)>> ELSE <<>>,
         solicits |-> s.solicits + d.solicits,
         armed |-> s.solicits + d.solicits > 0 /\ p0.send_rs_id = 0]

\* check_timestamps (ndisc, now, changed), running at clock time clk.
check_timestamps(p, cfg, now, clk, changed) ==
    LET never == G_MAXINT32
        p0 == [p EXCEPT !.sources = nm_clear_g_source(@, p.timeout_id),
                        !.timeout_id = 0]
        g == clean_gateways(p0.gateways, now, never)
        a == clean_addresses(p0.addresses, now, g.nextevent)
        r == clean_routes(p0.routes, now, a.nextevent)
        s == clean_dns_servers(p0.dns_servers, now, r.nextevent)
        d == clean_dns_domains(p0.dns_domains, now, s.nextevent)
        nextevent == d.nextevent
        mask == changed
                \cup (IF g.removed THEN {GATEWAYS} ELSE {})
                \cup (IF a.removed THEN {ADDRESSES} ELSE {})
                \cup (IF r.removed THEN {ROUTES} ELSE {})
                \cup (IF s.removed THEN {DNS_SERVERS} ELSE {})
                \cup (IF d.removed THEN {DNS_DOMAINS} ELSE {})
        p1 == [p0 EXCEPT !.gateways = g.list, !.addresses = a.list,
                         !.routes = r.list, !.dns_servers = s.list,
                         !.dns_domains = d.list]
        p2 == solicit_times(p1, cfg, clk, s.solicits + d.solicits)
        t == g_timeout_add_seconds(p2.sources, nextevent - now, TIMEOUT, clk)
        p3 == IF nextevent # never /\ nextevent > now
              THEN [p2 EXCEPT !.sources = t.sources, !.timeout_id = t.id]
              ELSE p2
    IN  [priv |-> p3,
         events |-> IF mask # {} THEN <<_emit_config_change(p2, mask)>> ELSE <<>>,
         solicits |-> s.solicits + d.solicits,
         armed |-> s.solicits + d.solicits > 0 /\ p0.send_rs_id = 0]


(***************************************************************************)
(* Engine facade.                                                          *)
(***************************************************************************)
\* Mutant of CLAMP: no lower limit.
CLAMP_no_floor(x, low, high) == IF x > high THEN high ELSE x

CLAMP(x, low, high) == IF x > high THEN high ELSE IF x < low THEN low ELSE x

ndisc_ra_timeout_cb(p) ==
    [priv |-> [p EXCEPT !.ra_timeout_id = 0],
     events |-> <<[signal |-> "ra_timeout"]>>]

\* nm_ndisc_start; started tells whether klass->start was invoked.
nm_ndisc_start(p, cfg, now, push_ok) ==
    IF p.ra_timeout_id # 0
    THEN [priv |-> p, started |-> FALSE, armed |-> FALSE]
    ELSE IF ~push_ok
         THEN [priv |-> p, started |-> FALSE, armed |-> FALSE]
         ELSE LET ra_wait_secs ==
                      CLAMP(cfg.router_solicitations * cfg.router_solicitation_interval + 1,
                            30, 120)
                  t == g_timeout_add_seconds(p.sources, ra_wait_secs, RA_TIMEOUT, now)
                  p1 == [p EXCEPT !.sources = t.sources, !.ra_timeout_id = t.id]
              IN  [priv |-> solicit(p1, cfg, now), started |-> TRUE,
                   armed |-> p1.send_rs_id = 0]

nm_ndisc_dad_failed(p, cfg, address) ==
    LET r == dad_failed_scan(p.addresses, 0, address, FALSE, cfg.addr_gen_mode, p.iid)
        p1 == [p EXCEPT !.addresses = r.list]
    IN  [priv |-> p1,
         events |-> IF r.changed THEN <<_emit_config_change(p1, {ADDRESSES})>> ELSE <<>>]

\* Mutant of nm_ndisc_set_iid: the flush does not call solicit ().
nm_ndisc_set_iid_no_solicit(p, cfg, now, iid_) ==
    IF p.iid # iid_
    THEN LET p1 == [p EXCEPT !.iid = iid_] IN
         IF cfg.addr_gen_mode = STABLE_PRIVACY
         THEN [priv |-> p1, ret |-> FALSE, events |-> <<>>, solicits |-> 0, armed |-> FALSE]
         ELSE IF Len(p1.addresses) # 0
              THEN LET p2 == [p1 EXCEPT !.addresses = <<>>] IN
                   [priv |-> p2, ret |-> TRUE,
                    events |-> <<_emit_config_change(p2, {ADDRESSES})>>,
                    solicits |-> 0, armed |-> FALSE]
              ELSE [priv |-> p1, ret |-> TRUE, events |-> <<>>, solicits |-> 0,
                    armed |-> FALSE]
    ELSE [priv |-> p, ret |-> FALSE, events |-> <<>>, solicits |-> 0, armed |-> FALSE]

\* Mutant of nm_ndisc_set_iid: the address-generation mode is not looked at.
nm_ndisc_set_iid_any_mode(p, cfg, now, iid_) ==
    IF p.iid # iid_
    THEN LET p1 == [p EXCEPT !.iid = iid_] IN
         IF Len(p1.addresses) # 0
         THEN LET p2 == [p1 EXCEPT !.addresses = <<>>] IN
              [priv |-> solicit(p2, cfg, now), ret |-> TRUE,
               events |-> <<_emit_config_change(p2, {ADDRESSES})>>,
               solicits |-> 1, armed |-> p2.send_rs_id = 0]
         ELSE [priv |-> p1, ret |-> TRUE, events |-> <<>>, solicits |-> 0,
               armed |-> FALSE]
    ELSE [priv |-> p, ret |-> FALSE, events |-> <<>>, solicits |-> 0, armed |-> FALSE]

nm_ndisc_set_iid(p, cfg, now, iid_) ==
    IF p.iid # iid_
    THEN LET p1 == [p EXCEPT !.iid = iid_] IN
         IF cfg.addr_gen_mode = STABLE_PRIVACY
         THEN [priv |-> p1, ret |-> FALSE, events |-> <<>>, solicits |-> 0, armed |-> FALSE]
         ELSE IF Len(p1.addresses) # 0
              THEN LET p2 == [p1 EXCEPT !.addresses = <<>>] IN
                   [priv |-> solicit(p2, cfg, now), ret |-> TRUE,
                    events |-> <<_emit_config_change(p2, {ADDRESSES})>>,
                    solicits |-> 1, armed |-> p2.send_rs_id = 0]
              ELSE [priv |-> p1, ret |-> TRUE, events |-> <<>>, solicits |-> 0,
                    armed |-> FALSE]
    ELSE [priv |-> p, ret |-> FALSE, events |-> <<>>, solicits |-> 0, armed |-> FALSE]

timeout_cb(p, cfg, now) ==
    check_timestamps([p EXCEPT !.timeout_id = 0], cfg, now, now, {})

\* Mutant of nm_ndisc_ra_received: the pending send timer is left alone.
nm_ndisc_ra_received_keep_send(p, cfg, now, clk, changed) ==
    LET p1 == [p EXCEPT !.sources = nm_clear_g_source(@, p.ra_timeout_id),
                        !.ra_timeout_id = 0]
        p3 == [p1 EXCEPT !.last_send_rs_error = NULL]
    IN  check_timestamps(p3, cfg, now, clk, changed)

\* Mutant of nm_ndisc_ra_received: last_send_rs_error is kept.
nm_ndisc_ra_received_keep_error(p, cfg, now, clk, changed) ==
    LET p1 == [p EXCEPT !.sources = nm_clear_g_source(@, p.ra_timeout_id),
                        !.ra_timeout_id = 0]
        p2 == [p1 EXCEPT !.sources = nm_clear_g_source(@, p1.send_rs_id),
                         !.send_rs_id = 0]
    IN  check_timestamps(p2, cfg, now, clk, changed)

\* nm_ndisc_ra_received (ndisc, now, changed), running at clock time clk.
nm_ndisc_ra_received(p, cfg, now, clk, changed) ==
    LET p1 == [p EXCEPT !.sources = nm_clear_g_source(@, p.ra_timeout_id),
                        !.ra_timeout_id = 0]
        p2 == [p1 EXCEPT !.sources = nm_clear_g_source(@, p1.send_rs_id),
                         !.send_rs_id = 0]
        p3 == [p2 EXCEPT !.last_send_rs_error = NULL]
    IN  check_timestamps(p3, cfg, now, clk, changed)

\* nm_ndisc_init and the construct-only properties.
nm_ndisc_init ==
    [gateways |-> <<>>, addresses |-> <<>>, routes |-> <<>>,
     dns_servers |-> <<>>, dns_domains |-> <<>>,
     solicitations_left |-> 0, send_rs_id |-> 0, last_rs |-> G_MININT32,
     ra_timeout_id |-> 0, timeout_id |-> 0, last_send_rs_error |-> NULL,
     iid |-> 0, sources |-> {}]

(***************************************************************************)
(* The state machine.                                                      *)
(***************************************************************************)
Commit(p) ==
    /\ gateways' = p.gateways
    /\ addresses' = p.addresses
    /\ routes' = p.routes
    /\ dns_servers' = p.dns_servers
    /\ dns_domains' = p.dns_domains
    /\ solicitations_left' = p.solicitations_left
    /\ send_rs_id' = p.send_rs_id
    /\ last_rs' = p.last_rs
    /\ ra_timeout_id' = p.ra_timeout_id
    /\ timeout_id' = p.timeout_id
    /\ last_send_rs_error' = p.last_send_rs_error
    /\ iid' = p.iid
    /\ sources' = p.sources

Call(op, arg) ==
    [op |-> op, arg |-> arg, ret |-> FALSE, solicits |-> 0, armed |-> FALSE,
     send |-> "none", log |-> "none", started |-> FALSE, cancelled |-> {}]

\* A run is a sequence of send_rs failures with one message, not interrupted
\* by a successful send, by an RA or by a failure with another message:
\* run_msg is its message and run_warns the number of its warn-level logs.
RunMsg(msg, send, outcome) ==
    IF send = "ok" THEN NULL ELSE IF send = "fail" THEN outcome ELSE msg

RunWarns(n, msg, send, outcome, log) ==
    IF send = "ok" THEN 0
    ELSE IF send # "fail" THEN n
    ELSE (IF outcome = msg THEN n ELSE 0) + (IF log = "warn" THEN 1 ELSE 0)

\* An effective solicit () begins a new burst.
NewBurst(h, armed) ==
    IF armed THEN [h EXCEPT !.burst_calls = 0, !.burst_ok = 0] ELSE h

InitWith(configs) ==
    /\ gateways = nm_ndisc_init.gateways
    /\ addresses = nm_ndisc_init.addresses
    /\ routes = nm_ndisc_init.routes
    /\ dns_servers = nm_ndisc_init.dns_servers
    /\ dns_domains = nm_ndisc_init.dns_domains
    /\ solicitations_left = nm_ndisc_init.solicitations_left
    /\ send_rs_id = nm_ndisc_init.send_rs_id
    /\ last_rs = nm_ndisc_init.last_rs
    /\ ra_timeout_id = nm_ndisc_init.ra_timeout_id
    /\ timeout_id = nm_ndisc_init.timeout_id
    /\ last_send_rs_error = nm_ndisc_init.last_send_rs_error
    /\ iid = nm_ndisc_init.iid
    /\ sources = nm_ndisc_init.sources
    /\ config \in configs
    /\ clock = 0
    /\ in_ra = FALSE
    /\ last = Call("init", NULL)
    /\ events = <<>>
    /\ hist = [burst_calls |-> 0, burst_ok |-> 0, started_at |-> -1,
               ra_timeouts |-> 0, ra_seen |-> FALSE, adds |-> 0, starts |-> 0,
               fails |-> 0, effective_starts |-> 0,
               run_msg |-> NULL, run_warns |-> 0, sent_at |-> -1]


\* The transport's receive callback calls the add helpers for the items of one
\* RA and then nm_ndisc_ra_received, all in one dispatch of the main loop: no
\* timer fires, no time passes and no other entry point runs in between.
MainLoopIdle == ~in_ra

\* The five add helpers, called by the transport with timestamp = now.
AddGateway(address, preference, lifetime) ==
    LET new == [address |-> address, timestamp |-> clock, lifetime |-> lifetime,
                preference |-> preference]
        r == nm_ndisc_add_gateway(gateways, new)
    IN  /\ Commit([Priv EXCEPT !.gateways = r.list])
        /\ last' = [Call("add_gateway", new) EXCEPT !.ret = r.ret]
        /\ events' = <<>>
        /\ in_ra' = TRUE
        /\ hist' = [hist EXCEPT !.adds = @ + 1]
        /\ UNCHANGED <<config, clock>>

CompleteAndAddAddress(prefix, lifetime, preferred) ==
    LET new == [prefix |-> prefix, host |-> 0, timestamp |-> clock,
                lifetime |-> lifetime, preferred |-> preferred, dad_counter |-> 0]
        r == nm_ndisc_complete_and_add_address(addresses, new, config.addr_gen_mode,
                                               iid, config.max_addresses)
    IN  /\ Commit([Priv EXCEPT !.addresses = r.list])
        /\ last' = [Call("complete_and_add_address", new) EXCEPT !.ret = r.ret]
        /\ events' = <<>>
        /\ in_ra' = TRUE
        /\ hist' = [hist EXCEPT !.adds = @ + 1]
        /\ UNCHANGED <<config, clock>>

AddRoute(network, plen, preference, lifetime) ==
    LET new == [network |-> network, plen |-> plen, gateway |-> 1,
                timestamp |-> clock, lifetime |-> lifetime, preference |-> preference]
        r == nm_ndisc_add_route(routes, new)
    IN  /\ Commit([Priv EXCEPT !.routes = r.list])
        /\ last' = [Call("add_route", new) EXCEPT !.ret = r.ret]
        /\ events' = <<>>
        /\ in_ra' = TRUE
        /\ hist' = [hist EXCEPT !.adds = @ + 1]
        /\ UNCHANGED <<config, clock>>

AddDnsServer(address, lifetime) ==
    LET new == [address |-> address, timestamp |-> clock, lifetime |-> lifetime]
        r == nm_ndisc_add_dns_server(dns_servers, new)
    IN  /\ Commit([Priv EXCEPT !.dns_servers = r.list])
        /\ last' = [Call("add_dns_server", new) EXCEPT !.ret = r.ret]
        /\ events' = <<>>
        /\ in_ra' = TRUE
        /\ hist' = [hist EXCEPT !.adds = @ + 1]
        /\ UNCHANGED <<config, clock>>

AddDnsDomain(domain, lifetime) ==
    LET new == [domain |-> domain, timestamp |-> clock, lifetime |-> lifetime]
        r == nm_ndisc_add_dns_domain(dns_domains, new)
    IN  /\ Commit([Priv EXCEPT !.dns_domains = r.list])
        /\ last' = [Call("add_dns_domain", new) EXCEPT !.ret = r.ret]
        /\ events' = <<>>
        /\ in_ra' = TRUE
        /\ hist' = [hist EXCEPT !.adds = @ + 1]
        /\ UNCHANGED <<config, clock>>

\* The transport ends the RA: nm_ndisc_ra_received (ndisc, now, changed).
RaReceived(changed) ==
    LET r == nm_ndisc_ra_received(Priv, config, clock, clock, changed) IN
    /\ Commit(r.priv)
    /\ last' = [Call("ra_received", changed) EXCEPT
                    !.solicits = r.solicits,
                    !.armed = r.armed,
                    !.cancelled = (IF ra_timeout_id # 0 THEN {RA_TIMEOUT} ELSE {})
                                  \cup (IF send_rs_id # 0 THEN {SEND_RS} ELSE {})]
    /\ events' = r.events
    /\ in_ra' = FALSE
    /\ hist' = [NewBurst(hist, r.armed) EXCEPT !.ra_seen = TRUE,
                                                !.run_msg = NULL,
                                                !.run_warns = 0]
    /\ UNCHANGED <<config, clock>>

Start(push_ok) ==
    LET r == nm_ndisc_start(Priv, config, clock, push_ok) IN
    /\ MainLoopIdle
    /\ Commit(r.priv)
    /\ last' = [Call("start", push_ok) EXCEPT !.started = r.started,
                                              !.armed = r.armed,
                                              !.solicits = IF r.started THEN 1 ELSE 0]
    /\ events' = <<>>
    /\ hist' = IF r.started
               THEN [NewBurst(hist, r.armed) EXCEPT !.started_at = clock,
                                                    !.ra_timeouts = 0,
                                                    !.ra_seen = FALSE,
                                                    !.starts = @ + 1,
                                                    !.effective_starts = @ + 1]
               ELSE [hist EXCEPT !.starts = @ + 1]
    /\ UNCHANGED <<config, clock, in_ra>>

SetIid(iid_) ==
    LET r == nm_ndisc_set_iid(Priv, config, clock, iid_) IN
    /\ MainLoopIdle
    /\ Commit(r.priv)
    /\ last' = [Call("set_iid", iid_) EXCEPT !.ret = r.ret, !.solicits = r.solicits,
                                             !.armed = r.armed]
    /\ events' = r.events
    /\ hist' = NewBurst(hist, r.armed)
    /\ UNCHANGED <<config, clock, in_ra>>

DadFailed(prefix, host) ==
    LET address == [prefix |-> prefix, host |-> host]
        r == nm_ndisc_dad_failed(Priv, config, address)
    IN  /\ MainLoopIdle
        /\ Commit(r.priv)
        /\ last' = Call("dad_failed", address)
        /\ events' = r.events
        /\ UNCHANGED <<config, clock, in_ra, hist>>

\* The main loop dispatches a due source; the callback returns G_SOURCE_REMOVE.
Due(role) == {s \in sources : s.role = role /\ s.due <= clock}

TimeoutCb ==
    \E s \in Due(TIMEOUT) :
        LET r == timeout_cb([Priv EXCEPT !.sources = @ \ {s}], config, clock) IN
        /\ MainLoopIdle
        /\ Commit(r.priv)
        /\ last' = [Call("timeout_cb", NULL) EXCEPT !.solicits = r.solicits,
                                                    !.armed = r.armed]
        /\ events' = r.events
        /\ hist' = NewBurst(hist, r.armed)
        /\ UNCHANGED <<config, clock, in_ra>>

SendRsTimeout(push_ok, outcome) ==
    \E s \in Due(SEND_RS) :
        LET r == send_rs_timeout([Priv EXCEPT !.sources = @ \ {s}], config, clock,
                                 push_ok, outcome)
        IN  /\ MainLoopIdle
            /\ Commit(r.priv)
            /\ last' = [Call("send_rs_timeout", outcome) EXCEPT !.send = r.send,
                                                                !.log = r.log]
            /\ events' = <<>>
            /\ hist' = [hist EXCEPT
                           !.burst_calls = IF r.send = "netns" THEN @ ELSE @ + 1,
                           !.burst_ok = IF r.send = "ok" THEN @ + 1 ELSE @,
                           !.fails = IF r.send = "ok" THEN @ ELSE @ + 1,
                           !.sent_at = IF r.send = "netns" THEN @ ELSE clock,
                           !.run_msg = RunMsg(@, r.send, outcome),
                           !.run_warns = RunWarns(@, hist.run_msg, r.send, outcome, r.log)]
            /\ UNCHANGED <<config, clock, in_ra>>

RaTimeoutCb ==
    \E s \in Due(RA_TIMEOUT) :
        LET r == ndisc_ra_timeout_cb([Priv EXCEPT !.sources = @ \ {s}]) IN
        /\ MainLoopIdle
        /\ Commit(r.priv)
        /\ last' = Call("ndisc_ra_timeout_cb", NULL)
        /\ events' = r.events
        /\ hist' = [hist EXCEPT !.ra_timeouts = @ + 1]
        /\ UNCHANGED <<config, clock, in_ra>>

\* One second passes; timers fire on time, so none is left due behind.
Tick(max) ==
    /\ MainLoopIdle
    /\ clock < max
    /\ \A s \in sources : s.due > clock
    /\ clock' = clock + 1
    /\ last' = Call("tick", NULL)
    /\ events' = <<>>
    /\ UNCHANGED <<gateways, addresses, routes, dns_servers, dns_domains,
                   solicitations_left, send_rs_id, last_rs, ra_timeout_id,
                   timeout_id, last_send_rs_error, iid, config, sources, in_ra, hist>>

\* The main loop sleeps until the earliest pending source is due.
WaitForTimer(max) ==
    /\ MainLoopIdle
    /\ sources # {}
    /\ LET due == CHOOSE d \in {s.due : s \in sources} : \A s \in sources : d <= s.due IN
       /\ due > clock
       /\ due <= max
       /\ clock' = due
    /\ last' = Call("tick", NULL)
    /\ events' = <<>>
    /\ UNCHANGED <<gateways, addresses, routes, dns_servers, dns_domains,
                   solicitations_left, send_rs_id, last_rs, ra_timeout_id,
                   timeout_id, last_send_rs_error, iid, config, sources, in_ra, hist>>

(***************************************************************************)
(* Inputs and specifications.                                              *)
(***************************************************************************)
\* Lifetimes an RA carries: withdrawal, a lifetime whose midpoint is its own
\* timestamp, one whose midpoint and expiry differ, and the infinite one.
Lifetimes == {0, 1, 2, G_MAXUINT32}
Preferences == {PREF_LOW, PREF_MEDIUM, PREF_HIGH}
SendOutcomes == {"ok", "e1", "e2"}

Config(mode, max, n, interval) ==
    [addr_gen_mode |-> mode, max_addresses |-> max,
     router_solicitations |-> n, router_solicitation_interval |-> interval]

\* The add helpers have been called fewer than n times.
Budget(n) == hist.adds < n

(***************************************************************************)
(* Spec: the five collections with one identity each, RAs and the sweep.   *)
(***************************************************************************)
Init == InitWith({Config(STABLE_PRIVACY, 0, 2, 2)})

Next ==
    \/ \E l \in Lifetimes : Budget(MaxAdds) /\ AddGateway(1, PREF_MEDIUM, l)
    \/ \E l \in Lifetimes : Budget(MaxAdds) /\ CompleteAndAddAddress(1, l, l)
    \/ \E l \in Lifetimes : Budget(MaxAdds) /\ AddRoute(1, 64, PREF_MEDIUM, l)
    \/ \E l \in Lifetimes : Budget(MaxAdds) /\ AddDnsServer(1, l)
    \/ \E l \in Lifetimes : Budget(MaxAdds) /\ AddDnsDomain("a", l)
    \/ \E m \in {{}, {DHCP_LEVEL}} : RaReceived(m)
    \/ TimeoutCb
    \/ SendRsTimeout(TRUE, "ok")
    \/ Tick(MaxTime)

Spec == Init /\ [][Next]_vars

(***************************************************************************)
(* SpecAddr: the address list under both address-generation modes, with    *)
(* DAD failures and interface-identifier changes.                          *)
(***************************************************************************)
Prefixes == 1..NumPrefixes
InterfaceIds == {0, 1, 2}

\* The addresses DAD can fail for: the stored ones, and one that is not stored.
DadAddresses ==
    {[prefix |-> item.prefix, host |-> item.host] : item \in {addresses[k] : k \in 1..Len(addresses)}}
    \cup {[prefix |-> 1, host |-> 0]}

InitAddr ==
    InitWith({Config(m, c, 1, 1) : m \in {EUI64, STABLE_PRIVACY}, c \in {0, 1, 2}})

NextAddr ==
    \/ \E pfx \in Prefixes, l \in {0, 1, G_MAXUINT32} :
           Budget(MaxAdds) /\ CompleteAndAddAddress(pfx, l, l)
    \/ Budget(MaxAdds) /\ AddGateway(1, PREF_MEDIUM, G_MAXUINT32)
    \/ \E a \in DadAddresses : DadFailed(a.prefix, a.host)
    \/ \E i \in InterfaceIds : SetIid(i)
    \/ RaReceived({})
    \/ TimeoutCb
    \/ SendRsTimeout(TRUE, "ok")
    \/ WaitForTimer(MaxTime)

SpecAddr == InitAddr /\ [][NextAddr]_vars

(***************************************************************************)
(* SpecOrder: gateways and routes of several routers and preferences.       *)
(***************************************************************************)
Routers == 1..NumRouters

NextOrder ==
    \/ \E a \in Routers, pref \in Preferences, l \in {0, 1, G_MAXUINT32} :
           Budget(MaxAdds) /\ AddGateway(a, pref, l)
    \/ \E n \in Routers, plen \in {0, 64}, pref \in Preferences, l \in {0, 1, G_MAXUINT32} :
           Budget(MaxAdds) /\ AddRoute(n, plen, pref, l)
    \/ RaReceived({})
    \/ TimeoutCb
    \/ Tick(MaxTime)

SpecOrder == Init /\ [][NextOrder]_vars

(***************************************************************************)
(* SpecReslot: gateways and routes of infinite lifetime, added three times,  *)
(* so that a stored item changes its preference next to another item.       *)
(***************************************************************************)
NextReslot ==
    \/ \E a \in Routers, pref \in Preferences :
           Budget(ReslotMaxAdds) /\ AddGateway(a, pref, G_MAXUINT32)
    \/ \E n \in Routers, pref \in Preferences :
           Budget(ReslotMaxAdds) /\ AddRoute(n, 64, pref, G_MAXUINT32)
    \/ RaReceived({})

SpecReslot == Init /\ [][NextReslot]_vars

(***************************************************************************)
(* SpecPacer: one burst after another with failing sends and a failing      *)
(* namespace switch, cancelled by RAs.                                      *)
(***************************************************************************)
InitPacer ==
    InitWith({Config(STABLE_PRIVACY, 0, n, 3 - n) : n \in 1..2})

NextPacer ==
    \/ hist.starts < MaxStarts /\ Start(TRUE)
    \/ SendRsTimeout(TRUE, "ok")
    \/ \E outcome \in SendOutcomes \ {"ok"} :
           hist.fails < MaxFails /\ SendRsTimeout(TRUE, outcome)
    \/ hist.fails < MaxFails /\ SendRsTimeout(FALSE, "ok")
    \/ Budget(MaxAdds) /\ AddDnsServer(1, 2)
    \/ RaReceived({})
    \/ TimeoutCb
    \/ Tick(PacerMaxTime)

SpecPacer == InitPacer /\ [][NextPacer]_vars

(***************************************************************************)
(* SpecStart: start and the first-RA timeout over the three regions of the  *)
(* wait (30, 33 and 120 seconds), with RAs and the DNS refresh.             *)
(***************************************************************************)
InitStart ==
    InitWith({Config(STABLE_PRIVACY, 0, 3, 4),
              Config(STABLE_PRIVACY, 0, 1, 32),
              Config(STABLE_PRIVACY, 0, 1, 200)})

NextStart ==
    \/ \E push_ok \in BOOLEAN : hist.starts < MaxStarts /\ Start(push_ok)
    \/ SendRsTimeout(TRUE, "ok")
    \/ RaTimeoutCb
    \/ Budget(MaxAdds) /\ AddDnsServer(1, 2)
    \/ RaReceived({})
    \/ TimeoutCb
    \/ WaitForTimer(StartMaxTime)

SpecStart == InitStart /\ [][NextStart]_vars

(***************************************************************************)
(* SpecBurst: bursts begun by start, with failing sends and RAs, under the  *)
(* main loop's fairness: time passes and a due timer is dispatched.         *)
(***************************************************************************)
NextBurst ==
    \/ hist.starts < MaxStarts /\ Start(TRUE)
    \/ SendRsTimeout(TRUE, "ok")
    \/ \E outcome \in SendOutcomes \ {"ok"} :
           hist.fails < MaxFails /\ SendRsTimeout(TRUE, outcome)
    \/ RaTimeoutCb
    \/ RaReceived({})
    \/ WaitForTimer(BurstMaxTime)

FairBurst ==
    /\ WF_vars(SendRsTimeout(TRUE, "ok"))
    /\ WF_vars(RaTimeoutCb)
    /\ WF_vars(WaitForTimer(BurstMaxTime))

SpecBurst == InitPacer /\ [][NextBurst]_vars /\ FairBurst

(***************************************************************************)
(* SpecWait: the first-RA timer against the burst, for a short burst, a     *)
(* burst that the 120 s limit of the timer still covers and one it does not.*)
(***************************************************************************)
InitWait ==
    InitWith({Config(STABLE_PRIVACY, 0, 3, 4),
              Config(STABLE_PRIVACY, 0, 2, 50),
              Config(STABLE_PRIVACY, 0, 2, 200)})

NextWait ==
    \/ hist.starts < MaxStarts /\ Start(TRUE)
    \/ SendRsTimeout(TRUE, "ok")
    \/ \E outcome \in SendOutcomes \ {"ok"} :
           hist.fails < MaxFails /\ SendRsTimeout(TRUE, outcome)
    \/ RaTimeoutCb
    \/ RaReceived({})
    \/ WaitForTimer(StartMaxTime)

SpecWait == InitWait /\ [][NextWait]_vars

(***************************************************************************)
(* SpecTimers: every entry point that arms or cancels a timer, in EUI-64    *)
(* mode: start, RAs, the DNS refresh of two DNS items, set_iid, dad_failed  *)
(* and the three callbacks.                                                 *)
(***************************************************************************)
InitTimers == InitWith({Config(EUI64, 0, 2, 10)})

NextTimers ==
    \/ hist.starts < MaxStarts /\ Start(TRUE)
    \/ \E i \in InterfaceIds \cap {iid + 1} : SetIid(i)
    \/ Budget(MaxAdds) /\ CompleteAndAddAddress(1, G_MAXUINT32, G_MAXUINT32)
    \/ Budget(MaxAdds) /\ AddDnsServer(1, 20)
    \/ Budget(MaxAdds) /\ AddDnsDomain("a", 20)
    \/ \E k \in 1..Len(addresses) : DadFailed(addresses[k].prefix, addresses[k].host)
    \/ RaReceived({})
    \/ TimeoutCb
    \/ SendRsTimeout(TRUE, "ok")
    \/ RaTimeoutCb
    \/ WaitForTimer(TimersMaxTime)

SpecTimers == InitTimers /\ [][NextTimers]_vars

(***************************************************************************)
(* Properties.                                                             *)
(***************************************************************************)
Items(arr) == {arr[k] : k \in 1..Len(arr)}
Finite(item) == item.lifetime # G_MAXUINT32
Expiry(item) == item.timestamp + item.lifetime
Refresh(item) == item.timestamp + (item.lifetime \div 2)
Stored == Items(gateways) \cup Items(addresses) \cup Items(routes)
          \cup Items(dns_servers) \cup Items(dns_domains)
Pending(id, role) == \E s \in sources : s.id = id /\ s.role = role

\* The state right after a sweep: check_timestamps ran in the last handler, and
\* the clock still reads the sweep's now.
Swept == last.op \in {"ra_received", "timeout_cb"}

\* C3 (as claimed): with timers firing on time, whenever the main loop is idle
\* no stored item of finite lifetime has timestamp + lifetime strictly in the
\* past: the engine's own timers remove it by its expiry.
C3_NoExpiredItemStored ==
    MainLoopIdle => \A item \in Stored : Finite(item) => Expiry(item) >= clock

\* The items an add helper's zero-lifetime call must leave: all but the match.
Without(arr, Match(_)) == SelectSeq(arr, LAMBDA item : ~Match(item))

ZeroLifetimeStep(arr, arr2, Match(_)) ==
    IF \E item \in Items(arr) : Match(item)
    THEN last'.ret /\ arr2 = Without(arr, Match)
    ELSE ~last'.ret /\ arr2 = arr

\* C6: an add helper called with lifetime 0 removes the identity-matching item
\* and returns changed, or changes nothing and returns unchanged when there is
\* none; it never inserts, and every stored item has a non-zero lifetime.
C6_ZeroLifetime ==
    [][/\ \A item \in Items(gateways') \cup Items(addresses') \cup Items(routes')
                      \cup Items(dns_servers') \cup Items(dns_domains') :
              item.lifetime # 0
       /\ last'.op = "add_gateway" /\ last'.arg.lifetime = 0 =>
              ZeroLifetimeStep(gateways, gateways',
                               LAMBDA item : item.address = last'.arg.address)
       /\ last'.op = "complete_and_add_address" /\ last'.arg.lifetime = 0 =>
              LET c == complete_address(last'.arg, config.addr_gen_mode, iid) IN
              ZeroLifetimeStep(addresses, addresses',
                               LAMBDA item : c.ok /\ SameAddress(item, c.addr))
       /\ last'.op = "add_route" /\ last'.arg.lifetime = 0 =>
              ZeroLifetimeStep(routes, routes',
                               LAMBDA item : /\ item.network = last'.arg.network
                                             /\ item.plen = last'.arg.plen)
       /\ last'.op = "add_dns_server" /\ last'.arg.lifetime = 0 =>
              ZeroLifetimeStep(dns_servers, dns_servers',
                               LAMBDA item : item.address = last'.arg.address)
       /\ last'.op = "add_dns_domain" /\ last'.arg.lifetime = 0 =>
              ZeroLifetimeStep(dns_domains, dns_domains',
                               LAMBDA item : item.domain = last'.arg.domain)
      ]_vars

\* A zero-lifetime add has just withdrawn a stored DNS server.
C6_Witness ==
    /\ last.op = "add_dns_server" /\ last.arg.lifetime = 0 /\ last.ret
    /\ dns_servers = <<>>

\* An item a sweep at time now keeps.
Alive(item, now) == ~Finite(item) \/ Expiry(item) > now

\* C7: right after a sweep at time now, each collection holds exactly the items
\* it held before whose lifetime is infinite or whose timestamp + lifetime is
\* later than now, in their order: the expired are gone, the infinite stay.
C7_SweepRemovesExpired ==
    [][Swept' =>
          /\ gateways' = SelectSeq(gateways, LAMBDA item : Alive(item, clock))
          /\ addresses' = SelectSeq(addresses, LAMBDA item : Alive(item, clock))
          /\ routes' = SelectSeq(routes, LAMBDA item : Alive(item, clock))
          /\ dns_servers' = SelectSeq(dns_servers, LAMBDA item : Alive(item, clock))
          /\ dns_domains' = SelectSeq(dns_domains, LAMBDA item : Alive(item, clock))
          /\ \A item \in Items(gateways') \cup Items(addresses') \cup Items(routes')
                         \cup Items(dns_servers') \cup Items(dns_domains') :
                 item.lifetime = G_MAXUINT32 \/ item.timestamp + item.lifetime > clock
      ]_vars

\* The sweep timer has just removed an expired gateway and kept an item of
\* infinite lifetime.
C7_Witness ==
    /\ last.op = "timeout_cb"
    /\ Len(events) = 1 /\ events[1].changed = {GATEWAYS}
    /\ gateways = <<>>
    /\ \E item \in Stored : ~Finite(item)

\* The DNS items past their midpoint (an infinite lifetime has none in reach).
PastMidpoint(arr, now) ==
    {k \in 1..Len(arr) : Finite(arr[k]) /\ now >= Refresh(arr[k])}

\* C8: right after a sweep, solicit () was called once for every DNS server and
\* DNS domain that survived it past its midpoint and for nothing else, and
\* when it was called a send-RS timer is pending.
C8_DnsRefresh ==
    Swept =>
        /\ last.solicits = Cardinality(PastMidpoint(dns_servers, clock))
                           + Cardinality(PastMidpoint(dns_domains, clock))
        /\ last.solicits > 0 => send_rs_id # 0 /\ Pending(send_rs_id, SEND_RS)

\* A sweep has kept a DNS server past its midpoint and asked for a solicitation.
C8_Witness ==
    /\ Swept
    /\ PastMidpoint(dns_servers, clock) # {}
    /\ last.solicits > 0
    /\ Pending(send_rs_id, SEND_RS)

\* C1: no collection holds two items with the same identity (gateway address;
\* completed address; route (network, plen); DNS server address; DNS domain).
Unique(arr, Same(_, _)) ==
    \A i, j \in 1..Len(arr) : i # j => ~Same(arr[i], arr[j])

C1_IdentityUnique ==
    /\ Unique(gateways, LAMBDA a, b : a.address = b.address)
    /\ Unique(addresses, SameAddress)
    /\ Unique(routes, LAMBDA a, b : a.network = b.network /\ a.plen = b.plen)
    /\ Unique(dns_servers, LAMBDA a, b : a.address = b.address)
    /\ Unique(dns_domains, LAMBDA a, b : a.domain = b.domain)

\* C5: with max_addresses > 0 the address list never holds more than
\* max_addresses entries; complete_and_add_address of an address that is not
\* stored, with the list at the cap, returns unchanged and leaves the list as
\* it was; at the cap a stored address is still refreshed (replaced by the new
\* entry) or, with lifetime 0, withdrawn.
Completed(new) == complete_address(new, config.addr_gen_mode, iid)
IsStored(arr, a) == \E k \in 1..Len(arr) : SameAddress(arr[k], a)
AtCap == config.max_addresses > 0 /\ Len(addresses) >= config.max_addresses

C5_CapStep ==
    last'.op = "complete_and_add_address" =>
        LET c == Completed(last'.arg) IN
        /\ (AtCap /\ c.ok /\ ~IsStored(addresses, c.addr))
               => (~last'.ret /\ addresses' = addresses)
        /\ (AtCap /\ c.ok /\ IsStored(addresses, c.addr) /\ c.addr.lifetime # 0)
               => /\ Len(addresses') = Len(addresses)
                  /\ \E k \in 1..Len(addresses) :
                         /\ SameAddress(addresses[k], c.addr)
                         /\ addresses' = [addresses EXCEPT ![k] = c.addr]
        /\ (AtCap /\ c.ok /\ IsStored(addresses, c.addr) /\ c.addr.lifetime = 0)
               => /\ last'.ret
                  /\ Len(addresses') = Len(addresses) - 1
                  /\ \E k \in 1..Len(addresses) :
                         /\ SameAddress(addresses[k], c.addr)
                         /\ addresses' = g_array_remove_index(addresses, k - 1)

C5_CapEnforced ==
    /\ [](config.max_addresses > 0 => Len(addresses) <= config.max_addresses)
    /\ [][C5_CapStep]_vars

\* The list is at its cap of one and the last call offered another prefix.
C5_Witness ==
    /\ config.max_addresses = 1
    /\ Len(addresses) = 1
    /\ last.op = "complete_and_add_address"
    /\ last.arg.lifetime # 0
    /\ last.arg.prefix # addresses[1].prefix
    /\ ~last.ret

\* C2: the gateway list and the route list are each in non-increasing
\* preference order.
Ordered(arr) ==
    \A i, j \in 1..Len(arr) : i < j => arr[i].preference >= arr[j].preference

C2_PreferenceOrder == Ordered(gateways) /\ Ordered(routes)

\* C4 as stated: within a burst send_rs is invoked at most router_solicitations
\* times, whatever the outcomes of the calls.
C4_SendBound == hist.burst_calls <= config.router_solicitations

\* C4 amended: within a burst send_rs succeeds at most router_solicitations
\* times, and while a send timer is pending the successes of the burst and
\* solicitations_left add up to router_solicitations; a failed send_rs leaves
\* solicitations_left as it was and is retried router_solicitation_interval
\* seconds later, so failures do not count.
C4_FailedSendStep ==
    (last'.op = "send_rs_timeout" /\ last'.send = "fail") =>
        /\ solicitations_left' = solicitations_left
        /\ send_rs_id' # 0
        /\ \E s \in sources' :
               /\ s.id = send_rs_id'
               /\ s.role = SEND_RS
               /\ s.due = clock + config.router_solicitation_interval

C4_SuccessBound ==
    /\ [](hist.burst_ok <= config.router_solicitations)
    /\ [](send_rs_id # 0 =>
              /\ solicitations_left > 0
              /\ hist.burst_ok + solicitations_left = config.router_solicitations)
    /\ [][C4_FailedSendStep]_vars

\* The burst has used up its successes and has seen more calls than that.
C4_Witness ==
    /\ hist.burst_ok = config.router_solicitations
    /\ hist.burst_calls > config.router_solicitations
    /\ last.op = "send_rs_timeout"
    /\ solicitations_left = 0

\* C9: after start () at time t with no RA, ra_timeout is emitted exactly once,
\* at t + clamp (router_solicitations * router_solicitation_interval + 1, 30,
\* 120); the callback clears ra_timeout_id and alters neither the collections
\* nor the sweep timer nor the pacer.
FirstRaWait ==
    LET w == config.router_solicitations * config.router_solicitation_interval + 1 IN
    IF w < 30 THEN 30 ELSE IF w > 120 THEN 120 ELSE w

Waiting == hist.started_at >= 0 /\ ~hist.ra_seen

C9_TimeoutStep ==
    last'.op = "ndisc_ra_timeout_cb" =>
        /\ Waiting
        /\ clock = hist.started_at + FirstRaWait
        /\ hist.ra_timeouts = 0
        /\ events' = <<[signal |-> "ra_timeout"]>>
        /\ ra_timeout_id' = 0
        /\ sources' = {s \in sources : s.id # ra_timeout_id}
        /\ UNCHANGED <<rdata_vars, timeout_id, send_rs_id, solicitations_left,
                       last_rs, last_send_rs_error, iid>>

C9_FirstRaTimeout ==
    /\ [](Waiting =>
              /\ hist.ra_timeouts <= 1
              /\ clock < hist.started_at + FirstRaWait =>
                     /\ hist.ra_timeouts = 0
                     /\ \E s \in sources :
                            /\ s.id = ra_timeout_id
                            /\ s.role = RA_TIMEOUT
                            /\ s.due = hist.started_at + FirstRaWait
              /\ clock > hist.started_at + FirstRaWait =>
                     /\ hist.ra_timeouts = 1
                     /\ ra_timeout_id = 0)
    /\ [][C9_TimeoutStep]_vars

\* The timeout fired 120 seconds after start, and an RA that came later is
\* processed: its DNS server is stored.
C9_Witness ==
    /\ hist.ra_timeouts = 1
    /\ FirstRaWait = 120
    /\ clock >= hist.started_at + 120
    /\ last.op = "ra_received"
    /\ dns_servers # <<>>

\* C10: ra_received cancels the first-RA timer and the pending send timer:
\* from an RA until the next start () no first-RA timer is pending and
\* ra_timeout is not emitted; when ra_received returns, a pending send timer
\* is one that the sweep's solicit () armed in that call, with
\* solicitations_left reset to router_solicitations and no send of the old
\* burst left behind.
C10_NoTimeoutStep == last'.op = "ndisc_ra_timeout_cb" => ~hist.ra_seen

C10_RaReceivedCancels ==
    /\ [](hist.ra_seen =>
              /\ ra_timeout_id = 0
              /\ \A s \in sources : s.role # RA_TIMEOUT)
    /\ [](last.op = "ra_received" =>
              /\ \A s \in sources : s.role = SEND_RS =>
                     /\ s.id = send_rs_id
                     /\ s.due >= clock
                     /\ last.armed
                     /\ last.solicits > 0
                     /\ solicitations_left = config.router_solicitations
                     /\ hist.burst_calls = 0
              /\ send_rs_id # 0 => Pending(send_rs_id, SEND_RS))
    /\ [][C10_NoTimeoutStep]_vars

\* An RA cancelled both timers and its sweep armed a new send timer.
C10_Witness ==
    /\ last.op = "ra_received"
    /\ last.cancelled = {RA_TIMEOUT, SEND_RS}
    /\ last.armed
    /\ send_rs_id # 0

\* C11: after a successful start () a further start () fails its precondition
\* and changes nothing, whether the first-RA timer is pending, has fired or
\* was cancelled: start () arms the timer, invokes the transport's start hook
\* and solicits at most once.
C11_DoubleStartRejected == hist.effective_starts <= 1

\* C12: in EUI-64 mode set_iid with an IID other than the current one and a
\* non-empty address list stores the IID, empties the address list, emits
\* config_changed with exactly the ADDRESSES bit and the emptied list, calls
\* solicit () so that a send timer is pending afterwards, and returns TRUE;
\* the other four collections are unchanged.
C12_FlushStep ==
    (/\ last'.op = "set_iid"
     /\ config.addr_gen_mode = EUI64
     /\ last'.arg # iid
     /\ addresses # <<>>) =>
        /\ iid' = last'.arg
        /\ addresses' = <<>>
        /\ Len(events') = 1
        /\ events'[1].signal = "config_changed"
        /\ events'[1].changed = {ADDRESSES}
        /\ events'[1].data.addresses = <<>>
        /\ events'[1].data.addresses_n = 0
        /\ last'.ret
        /\ last'.solicits = 1
        /\ send_rs_id' # 0
        /\ \E s \in sources' : s.id = send_rs_id' /\ s.role = SEND_RS
        /\ UNCHANGED <<gateways, routes, dns_servers, dns_domains>>

C12_IidChangeFlush == [][C12_FlushStep]_vars

\* set_iid flushed a non-empty address list and armed the send timer.
C12_Witness ==
    /\ last.op = "set_iid"
    /\ config.addr_gen_mode = EUI64
    /\ last.ret
    /\ last.armed
    /\ events # <<>>
    /\ addresses = <<>>
    /\ gateways # <<>>

\* C13: set_iid with the current IID (any mode), or with any IID in
\* stable-privacy mode, returns FALSE, leaves the five collections and the
\* three timers as they were and emits nothing; the IID is recorded.
C13_NoRegenerationStep ==
    (/\ last'.op = "set_iid"
     /\ (last'.arg = iid \/ config.addr_gen_mode = STABLE_PRIVACY)) =>
        /\ ~last'.ret
        /\ events' = <<>>
        /\ iid' = last'.arg
        /\ UNCHANGED <<rdata_vars, sources, send_rs_id, ra_timeout_id, timeout_id,
                       solicitations_left, last_rs>>

C13_SetIidNoRegeneration == [][C13_NoRegenerationStep]_vars

\* In stable-privacy mode a new IID was recorded with addresses stored.
C13_Witness ==
    /\ last.op = "set_iid"
    /\ config.addr_gen_mode = STABLE_PRIVACY
    /\ iid = last.arg
    /\ iid # 0
    /\ addresses # <<>>
    /\ ~last.ret

\* C14: in EUI-64 mode dad_failed (A) with A stored removes A, leaves every
\* other address, the other four collections and the timers as they were and
\* emits config_changed with exactly the ADDRESSES bit; with A not stored it
\* changes nothing and emits nothing.
C14_DadFailedStep ==
    (last'.op = "dad_failed" /\ config.addr_gen_mode = EUI64) =>
        /\ IsStored(addresses, last'.arg) =>
               /\ addresses' = Without(addresses, LAMBDA item : SameAddress(item, last'.arg))
               /\ Len(addresses') = Len(addresses) - 1
               /\ events' = <<[signal |-> "config_changed", changed |-> {ADDRESSES},
                               data |-> _data_complete(Priv)']>>
        /\ ~IsStored(addresses, last'.arg) =>
               /\ addresses' = addresses
               /\ events' = <<>>
        /\ UNCHANGED <<gateways, routes, dns_servers, dns_domains, sources, send_rs_id,
                       ra_timeout_id, timeout_id, solicitations_left, last_rs, iid>>

C14_DadFailedEui64 == [][C14_DadFailedStep]_vars

\* DAD failed for one of two stored EUI-64 addresses; the other one remains.
C14_Witness ==
    /\ last.op = "dad_failed"
    /\ config.addr_gen_mode = EUI64
    /\ events # <<>>
    /\ Len(addresses) = 1
    /\ ~SameAddress(addresses[1], last.arg)

\* C15 as stated: in stable-privacy mode dad_failed (A) re-derives the host
\* bits of every matching entry with its next dad_counter value and retains
\* the entry at its position.
Rederived(item) ==
    [item EXCEPT !.host = StablePrivacyHost(item.dad_counter), !.dad_counter = @ + 1]

C15_RetainedStep ==
    (last'.op = "dad_failed" /\ config.addr_gen_mode = STABLE_PRIVACY) =>
        /\ Len(addresses') = Len(addresses)
        /\ \A k \in 1..Len(addresses) :
               addresses'[k] = IF SameAddress(addresses[k], last'.arg)
                               THEN Rederived(addresses[k])
                               ELSE addresses[k]

C15_AlwaysRetained == [][C15_RetainedStep]_vars

\* C15 amended: in stable-privacy mode dad_failed (A) re-derives the host bits
\* of a matching entry with its next dad_counter value (1 after the initial 0)
\* and keeps it at its place with the same prefix, timestamp, lifetime and
\* preferred, as long as the derivation succeeds; an entry whose DAD counter
\* has run out is removed.  config_changed is emitted with exactly ADDRESSES
\* iff an entry matched.  In either mode dad_failed forces no RS: the timers,
\* solicitations_left and last_rs are unchanged.
RECURSIVE AfterDadFailure(_, _)
AfterDadFailure(arr, address) ==
    IF arr = <<>>
    THEN <<>>
    ELSE LET item == Head(arr)
             rest == AfterDadFailure(Tail(arr), address)
         IN  IF ~SameAddress(item, address)
             THEN <<item>> \o rest
             ELSE IF item.dad_counter < IDGEN_RETRIES
                  THEN <<Rederived(item)>> \o rest
                  ELSE rest

C15_StablePrivacyStep ==
    last'.op = "dad_failed" =>
        /\ config.addr_gen_mode = STABLE_PRIVACY =>
               /\ addresses' = AfterDadFailure(addresses, last'.arg)
               /\ events' = IF IsStored(addresses, last'.arg)
                            THEN <<[signal |-> "config_changed", changed |-> {ADDRESSES},
                                    data |-> _data_complete(Priv)']>>
                            ELSE <<>>
        /\ UNCHANGED <<sources, send_rs_id, ra_timeout_id, timeout_id,
                       solicitations_left, last_rs>>

C15_DadFailedStablePrivacy == [][C15_StablePrivacyStep]_vars

\* The first DAD failure of an address: it is now at the host bits of counter 1.
C15_Witness ==
    /\ last.op = "dad_failed"
    /\ config.addr_gen_mode = STABLE_PRIVACY
    /\ events # <<>>
    /\ Len(addresses) = 1
    /\ addresses[1].host = StablePrivacyHost(1)
    /\ addresses[1].dad_counter = 2
    /\ addresses[1].prefix = last.arg.prefix

\* C16: at most one timer is pending for each of the three roles, and it is
\* the one the role's id slot names: a role's timer is armed only when the
\* previous one has fired or was cancelled.
RoleSources(role) == {s \in sources : s.role = role}

OneTimer(role, id) ==
    /\ Cardinality(RoleSources(role)) <= 1
    /\ \A s \in RoleSources(role) : s.id = id
    /\ id # 0 => RoleSources(role) # {}

C16_OneTimerPerRole ==
    /\ OneTimer(SEND_RS, send_rs_id)
    /\ OneTimer(RA_TIMEOUT, ra_timeout_id)
    /\ OneTimer(TIMEOUT, timeout_id)

\* All three timers are pending at once, after a sweep that re-armed its timer.
C16_Witness ==
    /\ send_rs_id # 0
    /\ ra_timeout_id # 0
    /\ timeout_id # 0
    /\ Cardinality(sources) = 3
    /\ last.op = "set_iid"

\* C17: solicit () called while a send timer is pending arms no second timer,
\* leaves the pending timer and its due time alone and does not reset
\* solicitations_left; after any number of solicit () calls in one handler
\* exactly one send timer is pending.
C17_SolicitStep ==
    last'.solicits > 0 =>
        /\ Cardinality({s \in sources' : s.role = SEND_RS}) = 1
        /\ (send_rs_id # 0 /\ last'.op # "ra_received") =>
               /\ ~last'.armed
               /\ send_rs_id' = send_rs_id
               /\ {s \in sources' : s.role = SEND_RS} = RoleSources(SEND_RS)
               /\ solicitations_left' = solicitations_left
        /\ last'.armed =>
               /\ solicitations_left' = config.router_solicitations
               /\ \E s \in sources' : s.id = send_rs_id' /\ s.role = SEND_RS

C17_PacerIdempotence == [][C17_SolicitStep]_vars

\* A sweep called solicit () twice while a burst with one solicitation left
\* was pending.
C17_Witness ==
    /\ last.op = "timeout_cb"
    /\ last.solicits = 2
    /\ ~last.armed
    /\ send_rs_id # 0
    /\ solicitations_left = 1

\* C18: a send_rs_timeout call in which send_rs fails leaves solicitations_left
\* as it was, records the current time in last_rs, re-arms the send timer for
\* router_solicitation_interval seconds, touches no collection, no other timer
\* and no other pending source, and emits no event.
C18_FailedSendStep ==
    (last'.op = "send_rs_timeout" /\ last'.send = "fail") =>
        /\ solicitations_left' = solicitations_left
        /\ last_rs' = clock
        /\ send_rs_id' # 0
        /\ {s \in sources' : s.role = SEND_RS}
               = {[id |-> send_rs_id', role |-> SEND_RS,
                   due |-> clock + config.router_solicitation_interval]}
        /\ {s \in sources' : s.role # SEND_RS} = {s \in sources : s.role # SEND_RS}
        /\ UNCHANGED rdata_vars
        /\ UNCHANGED <<ra_timeout_id, timeout_id, iid>>
        /\ events' = <<>>

C18_SendFailureRetries == [][C18_FailedSendStep]_vars

\* A send has just failed, later than time 0, with a DNS server stored and both
\* other timers pending.
C18_Witness ==
    /\ last.op = "send_rs_timeout"
    /\ last.send = "fail"
    /\ clock > 0
    /\ last_rs = clock
    /\ send_rs_id # 0
    /\ ra_timeout_id # 0
    /\ timeout_id # 0
    /\ dns_servers # <<>>

\* C19: a failed send_rs is logged at warn exactly when its message differs
\* from last_send_rs_error, which then holds that message, and at debug
\* otherwise; a successful send and ra_received clear last_send_rs_error and
\* nothing else writes it; so a run of consecutive failures with one message
\* has exactly one warn-level log, and the first failure after a success or
\* an RA is logged at warn.
C19_LogStep ==
    /\ (last'.op = "send_rs_timeout" /\ last'.send = "fail") =>
           /\ last'.log = (IF last'.arg # last_send_rs_error THEN "warn" ELSE "debug")
           /\ last_send_rs_error' = last'.arg
    /\ (last'.op = "send_rs_timeout" /\ last'.send = "ok") =>
           last_send_rs_error' = NULL
    /\ last'.op = "ra_received" => last_send_rs_error' = NULL
    /\ (last'.op \notin {"send_rs_timeout", "ra_received"} \/ last'.send = "netns") =>
           UNCHANGED last_send_rs_error
    /\ (last'.op = "send_rs_timeout" /\ last'.send = "fail" /\ hist.run_msg = NULL) =>
           last'.log = "warn"

C19_SendErrorDebounce ==
    /\ [](hist.run_msg # NULL => hist.run_warns = 1)
    /\ [](last_send_rs_error = hist.run_msg)
    /\ [][C19_LogStep]_vars

\* The second failure of a run has just been logged at debug.
C19_Witness ==
    /\ last.op = "send_rs_timeout"
    /\ last.send = "fail"
    /\ last.log = "debug"
    /\ hist.fails >= 2
    /\ hist.run_warns = 1
    /\ last_send_rs_error = last.arg

\* C20: a sweep emits at most one event, a config_changed, and emits it
\* exactly when the mask is not empty; the mask is the one the sweep was
\* called with plus the bit of each collection the sweep removed an item from;
\* the snapshot holds the five collections as the sweep left them, with their
\* lengths, and so no expired item.
SweepMask ==
    (IF last'.op = "ra_received" THEN last'.arg ELSE {})
    \cup (IF Len(gateways') < Len(gateways) THEN {GATEWAYS} ELSE {})
    \cup (IF Len(addresses') < Len(addresses) THEN {ADDRESSES} ELSE {})
    \cup (IF Len(routes') < Len(routes) THEN {ROUTES} ELSE {})
    \cup (IF Len(dns_servers') < Len(dns_servers) THEN {DNS_SERVERS} ELSE {})
    \cup (IF Len(dns_domains') < Len(dns_domains) THEN {DNS_DOMAINS} ELSE {})

C20_SweepStep ==
    Swept' =>
        /\ Len(events') <= 1
        /\ events' # <<>> <=> SweepMask # {}
        /\ events' # <<>> =>
               /\ events'[1].signal = "config_changed"
               /\ events'[1].changed = SweepMask
               /\ events'[1].data =
                      [gateways |-> gateways', gateways_n |-> Len(gateways'),
                       addresses |-> addresses', addresses_n |-> Len(addresses'),
                       routes |-> routes', routes_n |-> Len(routes'),
                       dns_servers |-> dns_servers', dns_servers_n |-> Len(dns_servers'),
                       dns_domains |-> dns_domains', dns_domains_n |-> Len(dns_domains')]
               /\ \A item \in Items(events'[1].data.gateways)
                                \cup Items(events'[1].data.addresses)
                                \cup Items(events'[1].data.routes)
                                \cup Items(events'[1].data.dns_servers)
                                \cup Items(events'[1].data.dns_domains) :
                      Alive(item, clock)

C20_SweepEmitsCoherently == [][C20_SweepStep]_vars

\* An RA carrying the DHCP level has swept out an expired gateway and kept
\* another item, which the snapshot shows.
C20_Witness ==
    /\ last.op = "ra_received"
    /\ Len(events) = 1
    /\ events[1].changed = {DHCP_LEVEL, GATEWAYS}
    /\ events[1].data.gateways_n = 0
    /\ Stored # {}

\* C21: among gateways (and among routes) of equal preference an item inserted
\* earlier stands before an item inserted later: an add that inserts an item
\* anew (a new identity, or a stored one with another preference) places it
\* behind every stored item of its preference, and no step changes the
\* relative order of two items that both stay.
GatewayKey(item) == item.address
RouteKey(item) == <<item.network, item.plen>>

\* The new item stands behind every other item of its preference.
BehindTies(arr, new, Key(_)) ==
    \A j, k \in 1..Len(arr) :
        (Key(arr[j]) = Key(new) /\ Key(arr[k]) # Key(new)
         /\ arr[k].preference = new.preference) => k < j

\* The identity is stored with this preference already: the add refreshes it
\* in place.
Refreshes(arr, new, Key(_)) ==
    \E item \in {arr[k] : k \in 1..Len(arr)} :
        Key(item) = Key(new) /\ item.preference = new.preference

C21_InsertStep ==
    /\ (last'.op = "add_gateway" /\ last'.arg.lifetime # 0
        /\ ~Refreshes(gateways, last'.arg, GatewayKey)) =>
           BehindTies(gateways', last'.arg, GatewayKey)
    /\ (last'.op = "add_route" /\ last'.arg.lifetime # 0
        /\ last'.arg.plen # 0
        /\ ~Refreshes(routes, last'.arg, RouteKey)) =>
           BehindTies(routes', last'.arg, RouteKey)

C21_TiesKeepInsertionOrder == [][C21_InsertStep]_vars

\* C22: add_gateway (add_route) for a stored identity with a lifetime other
\* than 0 and another preference returns TRUE and leaves one item of that
\* identity, the new one, before every strictly less preferable item and
\* behind every strictly more preferable one; the other items keep their
\* order.
Others(arr, new, Key(_)) == SelectSeq(arr, LAMBDA item : Key(item) # Key(new))

Reslots(arr, new, Key(_)) ==
    /\ new.lifetime # 0
    /\ \E item \in {arr[k] : k \in 1..Len(arr)} :
           Key(item) = Key(new) /\ item.preference # new.preference

Reslotted(old, arr, new, Key(_)) ==
    /\ Cardinality({k \in 1..Len(arr) : Key(arr[k]) = Key(new)}) = 1
    /\ \E j \in 1..Len(arr) :
           /\ arr[j] = new
           /\ \A k \in 1..Len(arr) :
                  /\ arr[k].preference < new.preference => j < k
                  /\ arr[k].preference > new.preference => k < j
    /\ Others(arr, new, Key) = Others(old, new, Key)

C22_ReslotStep ==
    /\ (last'.op = "add_gateway" /\ Reslots(gateways, last'.arg, GatewayKey)) =>
           /\ last'.ret
           /\ Reslotted(gateways, gateways', last'.arg, GatewayKey)
    /\ (last'.op = "add_route" /\ Reslots(routes, last'.arg, RouteKey)) =>
           /\ last'.ret
           /\ Reslotted(routes, routes', last'.arg, RouteKey)

C22_PreferenceChangeReslots == [][C22_ReslotStep]_vars

\* C23: right after a sweep at time now, when a collection still holds an item
\* of finite lifetime exactly one sweep timer is pending, due at the earliest
\* deadline of these items and later than now: the expiry of a gateway, an
\* address or a route, the midpoint of a DNS server or domain while now is
\* before it and its expiry from the midpoint on; with no such item no sweep
\* timer is pending.
DnsDeadline(item, now) == IF now < Refresh(item) THEN Refresh(item) ELSE Expiry(item)

Deadlines(now) ==
    {Expiry(item) : item \in {x \in Items(gateways) \cup Items(addresses)
                                     \cup Items(routes) : Finite(x)}}
    \cup {DnsDeadline(item, now) : item \in {x \in Items(dns_servers)
                                                 \cup Items(dns_domains) : Finite(x)}}

C23_SweepTimerArmed ==
    Swept =>
        IF Deadlines(clock) = {}
        THEN timeout_id = 0 /\ RoleSources(TIMEOUT) = {}
        ELSE LET next_event == CHOOSE d \in Deadlines(clock) :
                                   \A e \in Deadlines(clock) : d <= e
             IN  /\ next_event > clock
                 /\ timeout_id # 0
                 /\ RoleSources(TIMEOUT) = {[id |-> timeout_id, role |-> TIMEOUT,
                                             due |-> next_event]}

\* C24: a burst that stops by itself (send_rs_timeout leaves no send timer)
\* stops with solicitations_left = 0 after exactly router_solicitations
\* successful send_rs calls, which are all its calls when none failed; and
\* with the main loop fair and send_rs succeeding in the end, every pending
\* send timer leads to a state with no send timer, reached at
\* solicitations_left = 0 or by an RA.
BurstOver == last.op = "send_rs_timeout" /\ last.send # "netns" /\ send_rs_id = 0

C24_BurstStops ==
    BurstOver =>
        /\ solicitations_left = 0
        /\ RoleSources(SEND_RS) = {}
        /\ hist.burst_ok = config.router_solicitations
        /\ (last.send = "ok" /\ hist.burst_calls = hist.burst_ok) =>
               hist.burst_calls = config.router_solicitations

C24_BurstTermination ==
    /\ []C24_BurstStops
    /\ [](send_rs_id # 0 /\ hist.burst_calls = hist.burst_ok =>
              hist.burst_calls < config.router_solicitations)
    /\ (send_rs_id # 0) ~> (send_rs_id = 0
                            /\ (solicitations_left = 0 \/ last.op = "ra_received"))

\* A burst of two solicitations has ended by itself after a failed send.
C24_Witness ==
    /\ BurstOver
    /\ config.router_solicitations = 2
    /\ hist.burst_ok = 2
    /\ hist.burst_calls = 3
    /\ ~hist.ra_seen

\* C25: a call of send_rs comes at least router_solicitation_interval seconds
\* after the call of send_rs before it (hist.sent_at, -1 before the first),
\* whether the timer was armed by send_rs_timeout or by solicit () from start,
\* a sweep or set_iid, and whether or not an RA cancelled a timer in between;
\* the first solicit () after construction arms the timer with delay 0.
C25_PacingStep ==
    /\ (last'.op = "send_rs_timeout" /\ last'.send # "netns" /\ hist.sent_at >= 0) =>
           clock - hist.sent_at >= config.router_solicitation_interval
    /\ (last'.armed /\ hist.sent_at < 0) =>
           \E s \in sources' :
               s.id = send_rs_id' /\ s.role = SEND_RS /\ s.due = clock

C25_SolicitationPacing ==
    /\ [](\A s \in RoleSources(SEND_RS) :
              hist.sent_at >= 0 =>
                  s.due >= hist.sent_at + config.router_solicitation_interval)
    /\ [][C25_PacingStep]_vars

\* A send was made, an RA cancelled the send timer and set_iid asked for a
\* new solicitation, all in one second: the new timer waits one interval.
C25_Witness ==
    /\ last.op = "set_iid"
    /\ last.armed
    /\ hist.ra_seen
    /\ hist.sent_at = clock
    /\ \E s \in sources :
           /\ s.id = send_rs_id
           /\ s.role = SEND_RS
           /\ s.due = clock + config.router_solicitation_interval

BurstFitsWait ==
    (config.router_solicitations - 1) * config.router_solicitation_interval < FirstRaWait

C26_TimeoutStep ==
    (last'.op = "ndisc_ra_timeout_cb" /\ BurstFitsWait
     /\ hist.burst_calls = hist.burst_ok) =>
        /\ solicitations_left' = 0
        /\ send_rs_id' = 0
        /\ {s \in sources' : s.role = SEND_RS} = {}
        /\ hist.burst_ok = config.router_solicitations

CompletionHost ==
    IF config.addr_gen_mode = STABLE_PRIVACY THEN StablePrivacyHost(0) ELSE iid

CapAllows == config.max_addresses = 0 \/ Len(addresses) < config.max_addresses

C27_ReaddStep ==
    (/\ last'.op = "complete_and_add_address"
     /\ last'.arg.lifetime # 0
     /\ CompletionHost # 0
     /\ \A item \in Items(addresses) :
            ~(item.prefix = last'.arg.prefix /\ item.host = CompletionHost)
     /\ CapAllows) =>
        /\ last'.ret
        /\ Len(addresses') = Len(addresses) + 1
        /\ SubSeq(addresses', 1, Len(addresses)) = addresses
        /\ addresses'[Len(addresses')] =
               [last'.arg EXCEPT
                    !.host = CompletionHost,
                    !.dad_counter = IF config.addr_gen_mode = STABLE_PRIVACY
                                    THEN 1 ELSE 0]

C27_DadFailureNotRemembered ==
    /\ [](last.op = "dad_failed" =>
              \A item \in Items(addresses) : ~SameAddress(item, last.arg))
    /\ [][C27_ReaddStep]_vars

\* In stable-privacy mode the address of DAD counter 0 has been added again
\* behind the entry dad_failed re-completed with counter 1, which keeps its
\* own lifetime.
C27_Witness ==
    /\ last.op = "complete_and_add_address"
    /\ last.ret
    /\ config.addr_gen_mode = STABLE_PRIVACY
    /\ Len(addresses) = 2
    /\ addresses[1].prefix = addresses[2].prefix
    /\ addresses[1].host = StablePrivacyHost(1)
    /\ addresses[1].dad_counter = 2
    /\ addresses[2].host = StablePrivacyHost(0)
    /\ addresses[2].dad_counter = 1
    /\ addresses[1].lifetime # addresses[2].lifetime

====
